---- MODULE Spec2Model ----
(***************************************************************************)
(* Model of watchdog/polling_observer.py: the per-path polling producer    *)
(* (_PollingEventProducer), the shared event queue and the observer        *)
(* (PollingObserver) with its rule table and dispatch loop.                *)
(*                                                                         *)
(* Threads of the model: one API caller (the owner of the observer), the   *)
(* observer thread executing PollingObserver.run, one thread per producer  *)
(* executing _PollingEventProducer.run, and the environment (the file      *)
(* system changing under the watched roots, an interrupt signal).          *)
(*                                                                         *)
(* Every step is one access to shared state: add_rule and remove_rule are  *)
(* split where run() and stop(), which take no lock, can observe them.     *)
(* The lock of @synchronized() (decorator_utils) is the rule table's       *)
(* mutual exclusion: add_rule and remove_rule hold it for their body.  The *)
(* API caller contends for it only with a handler that calls add_rule or   *)
(* remove_rule from inside dispatch (SpecHandlerCalls).                    *)
(* _get_directory_snapshot_diff is one step of its producer.               *)
(*                                                                         *)
(* Specifications: Spec (the program), SpecFair (Spec with the producers'  *)
(* threads scheduled), SpecAcquisitionFailure (Spec with snapshots that    *)
(* fail), SpecHandlerCalls (Spec with handlers that call the observer).    *)
(*                                                                         *)
(* dirsnapshot and events are not part of the modelled file: a snapshot is *)
(* the dict of the tree's entries, its diff the eight categories of the    *)
(* specification, an event its type and path(s).                           *)
(***************************************************************************)
EXTENDS Integers, Sequences, FiniteSets, Bags, TLC

VARIABLES
    rules,                   \* PollingObserver.rules: dict path -> rule
    event_producer_threads,  \* PollingObserver.event_producer_threads: set
    event_queue,             \* PollingObserver.event_queue: FIFO of entries
    prod,                    \* the _PollingEventProducer objects
    obs,                     \* the thread executing PollingObserver.run
    call,                    \* the API call the caller thread is executing
    fs,                      \* the watched trees on disk, one per root
    delivered,               \* history: entries handed to a handler
    hist                     \* history: counters and flags of the run

vars == <<rules, event_producer_threads, event_queue, prod, obs, call, fs,
          delivered, hist>>

----------------------------------------------------------------------------
(* Bounds of the model. *)

\* The producer objects a run may construct.
MaxProducers == 3
\* The external events of a run: API calls, changes on disk, interrupts.
MaxEvents == 4

Paths == {"a", "b"}
Handlers == {"h1", "h2"}
ProducerIds == 1..MaxProducers

----------------------------------------------------------------------------
(* The watched trees.  A tree (and a DirectorySnapshot of it) is a dict     *)
(* from entry path to its stat record.                                     *)

EntrySeq == <<"f1", "f2", "f3", "f4", "f5", "d1", "d2", "d3", "d4", "d5">>

File(ino, mtime) == [ino |-> ino, mtime |-> mtime, is_dir |-> FALSE]
Dir(ino, mtime) == [ino |-> ino, mtime |-> mtime, is_dir |-> TRUE]

\* The tree under root "a" alternates between TreeA and TreeB, which differ
\* in all eight categories at once.
TreeA == ("f1" :> File(1, 0)) @@ ("f2" :> File(2, 0)) @@ ("f4" :> File(4, 0))
         @@ ("d1" :> Dir(5, 0)) @@ ("d2" :> Dir(6, 0)) @@ ("d4" :> Dir(8, 0))

\* TreeA after: f1 touched, f2 removed, f3 created, f4 renamed to f5, and
\* the same four changes on the directories d1..d5.
TreeB == ("f1" :> File(1, 1)) @@ ("f3" :> File(3, 0)) @@ ("f5" :> File(4, 0))
         @@ ("d1" :> Dir(5, 1)) @@ ("d3" :> Dir(7, 0)) @@ ("d5" :> Dir(8, 0))

\* The tree under root "b" alternates between TreeOne and TreeTwo (f2 and
\* f3 are created, or deleted again: two entries of one category).
TreeOne == ("f1" :> File(1, 0)) @@ ("d1" :> Dir(5, 0))

TreeTwo == ("f1" :> File(1, 0)) @@ ("f2" :> File(2, 0)) @@ ("f3" :> File(3, 0))
           @@ ("d1" :> Dir(5, 0))

InitialTree == [p \in Paths |-> IF p = "a" THEN TreeA ELSE TreeOne]

\* The trees one change on disk can turn `tree` into.
ChangedTrees(tree) ==
    IF tree \in {TreeA, TreeB} THEN {TreeA, TreeB} \ {tree}
    ELSE {TreeOne, TreeTwo} \ {tree}

\* DirectorySnapshot(path): the inventory of the tree under `path` now.
DirectorySnapshot(path) == fs[path]

MovedTo(old, new, p) ==
    CHOOSE q \in DOMAIN new : q \notin DOMAIN old /\ new[q].ino = old[p].ino

IsMoved(old, new, p) ==
    /\ p \in DOMAIN old /\ p \notin DOMAIN new
    /\ \E q \in DOMAIN new : q \notin DOMAIN old /\ new[q].ino = old[p].ino

IsMoveTarget(old, new, q) ==
    /\ q \in DOMAIN new /\ q \notin DOMAIN old
    /\ \E p \in DOMAIN old : p \notin DOMAIN new /\ new[q].ino = old[p].ino

IsDeleted(old, new, p) ==
    p \in DOMAIN old /\ p \notin DOMAIN new /\ ~IsMoved(old, new, p)

IsCreated(old, new, p) ==
    p \in DOMAIN new /\ p \notin DOMAIN old /\ ~IsMoveTarget(old, new, p)

IsModified(old, new, p) ==
    p \in DOMAIN old /\ p \in DOMAIN new /\ new[p].mtime # old[p].mtime

Pairs(old, new, s) == [i \in 1..Len(s) |-> <<s[i], MovedTo(old, new, s[i])>>]

\* The diff of two equal snapshots: eight empty categories.
EmptyDiff ==
    [files_deleted |-> <<>>, files_modified |-> <<>>, files_created |-> <<>>,
     files_moved |-> <<>>, dirs_modified |-> <<>>, dirs_deleted |-> <<>>,
     dirs_created |-> <<>>, dirs_moved |-> <<>>]

\* new - old: the DirectorySnapshotDiff with its eight categories, each
\* listing its entries in the order of EntrySeq.
SnapshotDiff(new, old) ==
    IF new = old THEN EmptyDiff
    ELSE
    [files_deleted  |-> SelectSeq(EntrySeq, LAMBDA p : IsDeleted(old, new, p) /\ ~old[p].is_dir),
     files_modified |-> SelectSeq(EntrySeq, LAMBDA p : IsModified(old, new, p) /\ ~new[p].is_dir),
     files_created  |-> SelectSeq(EntrySeq, LAMBDA p : IsCreated(old, new, p) /\ ~new[p].is_dir),
     files_moved    |-> Pairs(old, new, SelectSeq(EntrySeq,
                          LAMBDA p : IsMoved(old, new, p) /\ ~old[p].is_dir)),
     dirs_modified  |-> SelectSeq(EntrySeq, LAMBDA p : IsModified(old, new, p) /\ new[p].is_dir),
     dirs_deleted   |-> SelectSeq(EntrySeq, LAMBDA p : IsDeleted(old, new, p) /\ old[p].is_dir),
     dirs_created   |-> SelectSeq(EntrySeq, LAMBDA p : IsCreated(old, new, p) /\ new[p].is_dir),
     dirs_moved     |-> Pairs(old, new, SelectSeq(EntrySeq,
                          LAMBDA p : IsMoved(old, new, p) /\ old[p].is_dir))]

----------------------------------------------------------------------------
(* Events and queue entries. *)

EventTypes == {"FileDeletedEvent", "FileModifiedEvent", "FileCreatedEvent",
               "FileMovedEvent", "DirModifiedEvent", "DirDeletedEvent",
               "DirCreatedEvent", "DirMovedEvent"}

Event(type, path) == [type |-> type, src_path |-> path, dest_path |-> ""]
MovedEvent(type, pair) == [type |-> type, src_path |-> pair[1], dest_path |-> pair[2]]

\* Mutant of one loop over a category: the put is outside the loop, so a
\* category with entries yields one event, for its first entry.
EventsFor_OnePerCategory(type, paths) ==
    IF paths = <<>> THEN <<>> ELSE <<Event(type, paths[1])>>

EventsFor(type, paths) == [i \in 1..Len(paths) |-> Event(type, paths[i])]
MovedEventsFor(type, pairs) == [i \in 1..Len(pairs) |-> MovedEvent(type, pairs[i])]


\* A queue entry (self.path, event).  `prod` and `poll` are history fields:
\* the producer object that put the entry and the number of changes on disk
\* its poll saw; no code reads them.
Entry(t, e) ==
    [rule_path |-> prod[t].path, event |-> e, prod |-> t, poll |-> prod[t].poll]

None == <<>>

----------------------------------------------------------------------------
(* _PollingEventProducer *)

\* _PollingEventProducer.__init__
NewProducer(path) ==
    [path |-> path, stopped |-> FALSE, snapshot |-> None, pc |-> "new",
     pending |-> <<>>, poll |-> 0, polled |-> FALSE]

Unborn ==
    [path |-> "", stopped |-> FALSE, snapshot |-> None, pc |-> "unborn",
     pending |-> <<>>, poll |-> 0, polled |-> FALSE]

\* _PollingEventProducer.stop: self.stopped.set()
ProducerStop(ps, ts) ==
    [t \in ProducerIds |-> IF t \in ts THEN [ps[t] EXCEPT !.stopped = TRUE] ELSE ps[t]]

\* Mutant of _get_directory_snapshot_diff: a missing snapshot is taken for
\* the snapshot of an empty tree, so the first poll returns a diff.
GetDirectorySnapshotDiff_NoBaseline(t) ==
    LET new_snapshot == DirectorySnapshot(prod[t].path)
        old_snapshot == IF prod[t].snapshot = None
                        THEN [e \in {} |-> File(0, 0)]
                        ELSE prod[t].snapshot[1]
    IN [snapshot |-> <<new_snapshot>>,
        diff |-> <<SnapshotDiff(new_snapshot, old_snapshot)>>]

\* Mutant of _get_directory_snapshot_diff: the new snapshot is not stored,
\* so every diff is taken against the baseline.
GetDirectorySnapshotDiff_KeepsBaseline(t) ==
    IF prod[t].snapshot = None
    THEN [snapshot |-> <<DirectorySnapshot(prod[t].path)>>, diff |-> None]
    ELSE LET new_snapshot == DirectorySnapshot(prod[t].path)
         IN [snapshot |-> prod[t].snapshot,
             diff |-> <<SnapshotDiff(new_snapshot, prod[t].snapshot[1])>>]

\* _get_directory_snapshot_diff: the new value of self.snapshot and the
\* returned diff (None, or <<diff>>).
GetDirectorySnapshotDiff(t) ==
    IF prod[t].snapshot = None
    THEN [snapshot |-> <<DirectorySnapshot(prod[t].path)>>, diff |-> None]
    ELSE LET new_snapshot == DirectorySnapshot(prod[t].path)
         IN [snapshot |-> <<new_snapshot>>,
             diff |-> <<SnapshotDiff(new_snapshot, prod[t].snapshot[1])>>]

\* Mutant of the eight loops: the dirs_deleted loop runs before the
\* dirs_modified loop, as the files loops do.
EventsOf_DirsDeletedFirst(diff) ==
    EventsFor("FileDeletedEvent", diff.files_deleted)
    \o EventsFor("FileModifiedEvent", diff.files_modified)
    \o EventsFor("FileCreatedEvent", diff.files_created)
    \o MovedEventsFor("FileMovedEvent", diff.files_moved)
    \o EventsFor("DirDeletedEvent", diff.dirs_deleted)
    \o EventsFor("DirModifiedEvent", diff.dirs_modified)
    \o EventsFor("DirCreatedEvent", diff.dirs_created)
    \o MovedEventsFor("DirMovedEvent", diff.dirs_moved)

\* The events one poll puts on the queue, in the order of the eight loops of
\* _PollingEventProducer.run.
EventsOf(diff) ==
    EventsFor("FileDeletedEvent", diff.files_deleted)
    \o EventsFor("FileModifiedEvent", diff.files_modified)
    \o EventsFor("FileCreatedEvent", diff.files_created)
    \o MovedEventsFor("FileMovedEvent", diff.files_moved)
    \o EventsFor("DirModifiedEvent", diff.dirs_modified)
    \o EventsFor("DirDeletedEvent", diff.dirs_deleted)
    \o EventsFor("DirCreatedEvent", diff.dirs_created)
    \o MovedEventsFor("DirMovedEvent", diff.dirs_moved)

\* `if diff and self.out_event_queue`: what the poll has to put.
PollEvents(diff) == IF diff = None THEN <<>> ELSE EventsOf(diff[1])

\* Mutant of the loop test: the stop flag is not read (`while True`).
LoopTarget_IgnoresStop(t) == "wait"

\* `while not self.stopped.is_set()`: the loop test.
LoopTarget(t) == IF prod[t].stopped THEN "done" ELSE "wait"

ProducerLoop(t) ==
    /\ prod[t].pc = "while"
    /\ prod' = [prod EXCEPT ![t].pc = LoopTarget(t)]
    /\ UNCHANGED <<rules, event_producer_threads, event_queue, obs, call, fs,
                   delivered, hist>>

\* Where the thread goes when stopped.wait(interval) returns, on the timeout
\* or because the flag was set: on to the poll in both cases.
AfterWait(t, events) == IF events = <<>> THEN "while" ELSE "emit"

\* stopped.wait(interval) returns and _get_directory_snapshot_diff runs.
ProducerPoll(t) ==
    /\ prod[t].pc = "wait"
    /\ LET r == GetDirectorySnapshotDiff(t)
           events == PollEvents(r.diff)
       IN prod' = [prod EXCEPT ![t].snapshot = r.snapshot,
                               ![t].pending = events,
                               ![t].poll = IF events = <<>> THEN @ ELSE hist.changes,
                               ![t].polled = TRUE,
                               ![t].pc = AfterWait(t, events)]
    /\ UNCHANGED <<rules, event_producer_threads, event_queue, obs, call, fs,
                   delivered, hist>>

\* Mutant of the put loops: the stop flag is tested before every put, and
\* a stopped producer abandons the events it still has to put.
ProducerPut_TestsStop(t) ==
    /\ prod[t].pc = "emit"
    /\ IF prod[t].stopped
       THEN /\ prod' = [prod EXCEPT ![t].pending = <<>>, ![t].pc = "while"]
            /\ UNCHANGED event_queue
       ELSE /\ event_queue' = Append(event_queue, Entry(t, Head(prod[t].pending)))
            /\ prod' = [prod EXCEPT ![t].pending = Tail(@),
                                    ![t].pc = IF Tail(prod[t].pending) = <<>>
                                              THEN "while" ELSE "emit"]
    /\ UNCHANGED <<rules, event_producer_threads, obs, call, fs, delivered, hist>>

\* One q.put((self.path, event)).
ProducerPut(t) ==
    /\ prod[t].pc = "emit"
    /\ event_queue' = Append(event_queue, Entry(t, Head(prod[t].pending)))
    /\ prod' = [prod EXCEPT ![t].pending = Tail(@),
                            ![t].pc = IF Tail(prod[t].pending) = <<>>
                                      THEN "while" ELSE "emit"]
    /\ UNCHANGED <<rules, event_producer_threads, obs, call, fs, delivered, hist>>

----------------------------------------------------------------------------
(* PollingObserver: add_rule, remove_rule, stop, called by the API caller.  *)

\* No call in progress.  visited, at_stop and size0 are the set iterator of
\* the for statement of stop().
Idle == [op |-> "", path |-> "", event_handler |-> "", pc |-> "idle", t |-> 0,
         visited |-> {}, at_stop |-> {}, size0 |-> 0]

\* The control points of run() inside its try: the dispatch loop, and the
\* calls a handler makes from inside dispatch(event).
TryPcs == {"get", "lookup", "dispatch",
           "h_acquire", "h_insert", "h_stop", "h_discard"}

\* The call a handler makes from inside dispatch(event), on the
\* dispatcher's thread: none in progress.
NoCall == [op |-> "", path |-> "", event_handler |-> "", t |-> 0]

\* The lock of @synchronized(), one mutual exclusion for the rule table:
\* add_rule and remove_rule hold it for the whole of their body, whichever
\* thread calls them.  The caller's thread holds it inside its call.
CallerHoldsLock == call.pc \in {"insert", "stop", "discard"}

\* The dispatcher's thread is inside the body of an add_rule or remove_rule
\* that a handler called.
HandlerInCriticalSection == obs.pc \in {"h_insert", "h_stop", "h_discard"}

\* Mutant of run(): the dispatcher takes the lock for the lookup and keeps
\* it while the handler runs.
DispatcherHoldsLock_WhileDispatching ==
    obs.pc \in {"dispatch", "h_acquire", "h_insert", "h_stop", "h_discard"}

\* run() is not synchronized and acquires nothing: the dispatcher's thread
\* holds the lock only inside a call a handler makes.
DispatcherHoldsLock == HandlerInCriticalSection

LockFree == ~CallerHoldsLock /\ ~DispatcherHoldsLock

FreshProducer == CHOOSE t \in ProducerIds :
    /\ prod[t].pc = "unborn"
    /\ \A u \in ProducerIds : prod[u].pc = "unborn" => t <= u

CanCall == call.pc = "idle" /\ hist.events < MaxEvents

\* Mutant of the test of add_rule: the rule is (re)built whether or not the
\* path is registered.
AddRuleIsNew_Unchecked(path) == TRUE

\* `if not path in self.rules`
AddRuleIsNew(path) == path \notin DOMAIN rules

\* add_rule up to self.event_producer_threads.add(event_producer_thread)
AddRuleEnter(path, event_handler) ==
    /\ CanCall
    /\ LockFree
    /\ IF AddRuleIsNew(path)
       THEN /\ \E t \in ProducerIds : prod[t].pc = "unborn"
            /\ LET t == FreshProducer
               IN /\ prod' = [prod EXCEPT ![t] = NewProducer(path)]
                  /\ event_producer_threads' = event_producer_threads \cup {t}
                  /\ call' = [Idle EXCEPT !.op = "add_rule", !.path = path,
                                          !.event_handler = event_handler,
                                          !.pc = "insert", !.t = t]
                  /\ hist' = [hist EXCEPT !.events = @ + 1]
       ELSE /\ call' = Idle
            /\ hist' = [hist EXCEPT !.events = @ + 1,
                                    !.kept = @ \/ rules[path].event_handler # event_handler]
            /\ UNCHANGED <<prod, event_producer_threads>>
    /\ UNCHANGED <<rules, event_queue, obs, fs, delivered>>

\* self.rules[path] = {...}
AddRuleInsert ==
    /\ call.pc = "insert"
    /\ rules' = (call.path :> [event_handler |-> call.event_handler,
                               event_producer_thread |-> call.t]) @@ rules
    /\ call' = Idle
    /\ UNCHANGED <<event_producer_threads, event_queue, prod, obs, fs,
                   delivered, hist>>

\* remove_rule up to rule = self.rules.pop(path)
RemoveRuleEnter(path) ==
    /\ CanCall
    /\ LockFree
    /\ hist' = [hist EXCEPT !.events = @ + 1]
    /\ IF path \in DOMAIN rules
       THEN /\ rules' = [p \in DOMAIN rules \ {path} |-> rules[p]]
            /\ call' = [Idle EXCEPT !.op = "remove_rule", !.path = path,
                                    !.pc = "stop",
                                    !.t = rules[path].event_producer_thread]
       ELSE /\ call' = Idle
            /\ UNCHANGED rules
    /\ UNCHANGED <<event_producer_threads, event_queue, prod, obs, fs, delivered>>

\* event_producer_thread.stop()
RemoveRuleStop ==
    /\ call.pc = "stop"
    /\ prod' = ProducerStop(prod, {call.t})
    /\ call' = [call EXCEPT !.pc = "discard"]
    /\ UNCHANGED <<rules, event_producer_threads, event_queue, obs, fs,
                   delivered, hist>>

\* self.event_producer_threads.remove(event_producer_thread)
RemoveRuleDiscard ==
    /\ call.pc = "discard"
    /\ event_producer_threads' = event_producer_threads \ {call.t}
    /\ call' = Idle
    /\ UNCHANGED <<rules, event_queue, prod, obs, fs, delivered, hist>>

\* PollingObserver.stop is called: `for t in self.event_producer_threads`
\* creates the set iterator.  stop() takes no lock.
Stop ==
    /\ CanCall
    /\ call' = [Idle EXCEPT !.op = "stop", !.pc = "stop_for",
                            !.at_stop = event_producer_threads,
                            !.size0 = Cardinality(event_producer_threads)]
    /\ hist' = [hist EXCEPT !.events = @ + 1,
                            !.stopped_running = @ \/ obs.pc \in TryPcs]
    /\ UNCHANGED <<rules, event_producer_threads, event_queue, prod, obs, fs,
                   delivered>>

\* The producers the iterator of stop() may yield next, and whether it may
\* report exhaustion (as for the iterator of run(), ForCandidates).
StopCandidates == event_producer_threads \ call.visited

StopMayEnd == StopCandidates = {} \/ event_producer_threads # call.at_stop

\* One step of the for statement of stop(): the next producer and its
\* t.stop(), the end of stop(), or "Set changed size during iteration",
\* which stop() raises to its caller.
StopFor ==
    /\ call.pc = "stop_for"
    /\ IF Cardinality(event_producer_threads) # call.size0
       THEN /\ call' = Idle
            /\ hist' = [hist EXCEPT !.stop_error = "RuntimeError"]
            /\ UNCHANGED prod
       ELSE \/ \E t \in StopCandidates :
                /\ prod' = ProducerStop(prod, {t})
                /\ call' = [call EXCEPT !.visited = @ \cup {t}]
                /\ UNCHANGED hist
            \/ /\ StopMayEnd
               /\ call' = Idle
               /\ UNCHANGED <<prod, hist>>
    /\ UNCHANGED <<rules, event_producer_threads, event_queue, obs, fs, delivered>>


----------------------------------------------------------------------------
(* PollingObserver.run, executed by the observer thread. *)

Failed(error) == [obs EXCEPT !.pc = "failed", !.error = error]

\* Thread.start(): the caller starts the observer thread, which enters run().
Start ==
    /\ call.pc = "idle"
    /\ obs.pc = "created"
    /\ obs' = [obs EXCEPT !.pc = "run"]
    /\ UNCHANGED <<rules, event_producer_threads, event_queue, prod, call, fs,
                   delivered, hist>>

\* `for t in self.event_producer_threads`: the set iterator is created.
ObsRunBegin ==
    /\ obs.pc = "run"
    /\ obs' = [obs EXCEPT !.pc = "for",
                          !.at_run = event_producer_threads,
                          !.size0 = Cardinality(event_producer_threads)]
    /\ UNCHANGED <<rules, event_producer_threads, event_queue, prod, call, fs,
                   delivered, hist>>

\* The producers the set iterator may yield next.  Over an unchanged set it
\* yields the members not yet visited, in no particular order.
ForCandidates == event_producer_threads \ obs.visited

\* Whether the iterator may report exhaustion: no member left, or the set was
\* changed under it without a change of size (members may then be skipped).
ForMayEnd == ForCandidates = {} \/ event_producer_threads # obs.at_run

\* The first statement of the body of the for loop, t.start(): run() is
\* then between t.start() and its try.
ForBody(t) ==
    IF prod[t].pc = "new"
    THEN /\ prod' = [prod EXCEPT ![t].pc = "while"]
         /\ obs' = [obs EXCEPT !.pc = "started", !.t = t, !.visited = @ \cup {t}]
    ELSE /\ obs' = Failed("RuntimeError")
         /\ UNCHANGED prod

\* One step of the for statement: the next producer, the end of run(), or
\* "Set changed size during iteration".
ObsFor ==
    /\ obs.pc = "for"
    /\ IF Cardinality(event_producer_threads) # obs.size0
       THEN obs' = Failed("RuntimeError") /\ UNCHANGED prod
       ELSE \/ \E t \in ForCandidates : ForBody(t)
            \/ /\ ForMayEnd
               /\ obs' = [obs EXCEPT !.pc = "returned"]
               /\ UNCHANGED prod
    /\ UNCHANGED <<rules, event_producer_threads, event_queue, call, fs,
                   delivered, hist>>

\* `try:` and `while True:`: run() enters the try of this iteration.
ObsTry ==
    /\ obs.pc = "started"
    /\ obs' = [obs EXCEPT !.pc = "get"]
    /\ UNCHANGED <<rules, event_producer_threads, event_queue, prod, call, fs,
                   delivered, hist>>

\* (rule_path, event) = self.event_queue.get(): blocks while the queue is empty.
ObsGet ==
    /\ obs.pc = "get"
    /\ event_queue # <<>>
    /\ obs' = [obs EXCEPT !.pc = "lookup", !.entry = <<Head(event_queue)>>]
    /\ event_queue' = Tail(event_queue)
    /\ UNCHANGED <<rules, event_producer_threads, prod, call, fs, delivered, hist>>

\* event_handler = self.rules[rule_path]['event_handler']
Lookup(rule_path) ==
    IF rule_path \in DOMAIN rules
    THEN [obs EXCEPT !.pc = "dispatch",
                     !.event_handler = rules[rule_path].event_handler]
    ELSE Failed("KeyError")

ObsLookup ==
    /\ obs.pc = "lookup"
    /\ obs' = Lookup(obs.entry[1].rule_path)
    /\ UNCHANGED <<rules, event_producer_threads, event_queue, prod, call, fs,
                   delivered, hist>>

\* What run() does when event_handler.dispatch(event) returns or raises.
AfterDispatch(raised) ==
    IF raised THEN Failed("HandlerError")
    ELSE [obs EXCEPT !.pc = "get", !.entry = None, !.event_handler = ""]

\* event_handler.dispatch(event); the handler returns or raises.
ObsDispatch(raised) ==
    /\ obs.pc = "dispatch"
    /\ delivered' = delivered (+) SetToBag({[entry |-> obs.entry[1],
                                            event_handler |-> obs.event_handler]})
    /\ obs' = AfterDispatch(raised)
    /\ UNCHANGED <<rules, event_producer_threads, event_queue, prod, call, fs, hist>>

\* The control points of run() where no try is active: before and at the
\* for statement, between t.start() and the try, and inside the except
\* clause before t.stop() has set the flag.
OutsideTryPcs == {"run", "for", "started", "except"}

\* A KeyboardInterrupt in the thread of run().  Inside the try it is caught
\* and run() enters `except KeyboardInterrupt:` (a call of a handler is
\* abandoned, its lock released); anywhere else in run() it is not caught
\* and ends run(), whatever the producer of this iteration is doing.
Interrupt ==
    /\ obs.pc \in OutsideTryPcs \cup TryPcs
    /\ hist.events < MaxEvents
    /\ obs' = IF obs.pc \in TryPcs
              THEN [obs EXCEPT !.pc = "except", !.entry = None,
                               !.event_handler = "", !.hcall = NoCall]
              ELSE Failed("KeyboardInterrupt")
    /\ hist' = [hist EXCEPT !.events = @ + 1]
    /\ UNCHANGED <<rules, event_producer_threads, event_queue, prod, call, fs,
                   delivered>>

\* The body of `except KeyboardInterrupt:`, t.stop(): the producer of this
\* iteration is told to stop and the for loop goes on.
ObsExcept ==
    /\ obs.pc = "except"
    /\ prod' = ProducerStop(prod, {obs.t})
    /\ obs' = [obs EXCEPT !.pc = "for"]
    /\ UNCHANGED <<rules, event_producer_threads, event_queue, call, fs,
                   delivered, hist>>

----------------------------------------------------------------------------
(* A handler that calls add_rule or remove_rule of its observer from inside *)
(* dispatch(event).  The call runs on the dispatcher's thread.              *)

\* The handler calls op(path, ...), passing itself as the handler of an
\* add_rule: the call waits for the lock.
HandlerCalls(op, path) ==
    /\ obs.pc = "dispatch"
    /\ hist.events < MaxEvents
    /\ obs' = [obs EXCEPT !.pc = "h_acquire",
                          !.hcall = [op |-> op, path |-> path,
                                     event_handler |-> obs.event_handler,
                                     t |-> 0]]
    /\ hist' = [hist EXCEPT !.events = @ + 1]
    /\ UNCHANGED <<rules, event_producer_threads, event_queue, prod, call, fs,
                   delivered>>

\* add_rule, called by the handler: the lock is acquired, then as
\* AddRuleEnter.
HandlerAddRuleEnter ==
    /\ obs.pc = "h_acquire" /\ obs.hcall.op = "add_rule"
    /\ LockFree
    /\ IF AddRuleIsNew(obs.hcall.path)
       THEN /\ \E t \in ProducerIds : prod[t].pc = "unborn"
            /\ LET t == FreshProducer
               IN /\ prod' = [prod EXCEPT ![t] = NewProducer(obs.hcall.path)]
                  /\ event_producer_threads' = event_producer_threads \cup {t}
                  /\ obs' = [obs EXCEPT !.pc = "h_insert", !.hcall.t = t]
       ELSE /\ obs' = [obs EXCEPT !.pc = "dispatch", !.hcall = NoCall]
            /\ UNCHANGED <<prod, event_producer_threads>>
    /\ UNCHANGED <<rules, event_queue, call, fs, delivered, hist>>

\* self.rules[path] = {...}, then the lock is released and the call returns.
HandlerAddRuleInsert ==
    /\ obs.pc = "h_insert"
    /\ rules' = (obs.hcall.path :> [event_handler |-> obs.hcall.event_handler,
                                    event_producer_thread |-> obs.hcall.t]) @@ rules
    /\ obs' = [obs EXCEPT !.pc = "dispatch", !.hcall = NoCall]
    /\ UNCHANGED <<event_producer_threads, event_queue, prod, call, fs,
                   delivered, hist>>

\* remove_rule, called by the handler: the lock is acquired, then as
\* RemoveRuleEnter.
HandlerRemoveRuleEnter ==
    /\ obs.pc = "h_acquire" /\ obs.hcall.op = "remove_rule"
    /\ LockFree
    /\ IF obs.hcall.path \in DOMAIN rules
       THEN /\ rules' = [p \in DOMAIN rules \ {obs.hcall.path} |-> rules[p]]
            /\ obs' = [obs EXCEPT !.pc = "h_stop",
                                  !.hcall.t = rules[obs.hcall.path].event_producer_thread]
       ELSE /\ obs' = [obs EXCEPT !.pc = "dispatch", !.hcall = NoCall]
            /\ UNCHANGED rules
    /\ UNCHANGED <<event_producer_threads, event_queue, prod, call, fs,
                   delivered, hist>>

\* event_producer_thread.stop()
HandlerRemoveRuleStop ==
    /\ obs.pc = "h_stop"
    /\ prod' = ProducerStop(prod, {obs.hcall.t})
    /\ obs' = [obs EXCEPT !.pc = "h_discard"]
    /\ UNCHANGED <<rules, event_producer_threads, event_queue, call, fs,
                   delivered, hist>>

\* self.event_producer_threads.remove(event_producer_thread), then the lock
\* is released and the call returns.
HandlerRemoveRuleDiscard ==
    /\ obs.pc = "h_discard"
    /\ event_producer_threads' = event_producer_threads \ {obs.hcall.t}
    /\ obs' = [obs EXCEPT !.pc = "dispatch", !.hcall = NoCall]
    /\ UNCHANGED <<rules, event_queue, prod, call, fs, delivered, hist>>

----------------------------------------------------------------------------
(* The environment: a watched tree changes on disk. *)

FsChange(path) ==
    /\ hist.events < MaxEvents
    /\ \E tree \in ChangedTrees(fs[path]) : fs' = [fs EXCEPT ![path] = tree]
    /\ hist' = [hist EXCEPT !.events = @ + 1, !.changes = @ + 1]
    /\ UNCHANGED <<rules, event_producer_threads, event_queue, prod, obs, call,
                   delivered>>

----------------------------------------------------------------------------

\* PollingObserver.__init__, before any call.
Init ==
    /\ rules = [p \in {} |-> 0]
    /\ event_producer_threads = {}
    /\ event_queue = <<>>
    /\ prod = [t \in ProducerIds |-> Unborn]
    /\ obs = [pc |-> "created", t |-> 0, visited |-> {}, at_run |-> {},
              size0 |-> 0, entry |-> None, event_handler |-> "", error |-> "",
              hcall |-> NoCall]
    /\ call = Idle
    /\ fs = InitialTree
    /\ delivered = EmptyBag
    /\ hist = [events |-> 0, changes |-> 0,
               stopped_running |-> FALSE, kept |-> FALSE, stop_error |-> ""]

\* The handlers the caller passes to add_rule: each root has a handler of
\* its own, and a call for a registered root may pass any handler.
HandlersFor(p) ==
    IF p \in DOMAIN rules THEN Handlers ELSE {IF p = "a" THEN "h1" ELSE "h2"}

Next ==
    \/ \E p \in Paths : \E h \in HandlersFor(p) : AddRuleEnter(p, h)
    \/ AddRuleInsert
    \/ \E p \in Paths : RemoveRuleEnter(p)
    \/ RemoveRuleStop
    \/ RemoveRuleDiscard
    \/ Stop
    \/ StopFor
    \/ Start
    \/ ObsRunBegin
    \/ ObsFor
    \/ ObsTry
    \/ ObsGet
    \/ ObsLookup
    \/ \E raised \in BOOLEAN : ObsDispatch(raised)
    \/ Interrupt
    \/ ObsExcept
    \/ \E t \in ProducerIds : ProducerLoop(t)
    \/ \E t \in ProducerIds : ProducerPoll(t)
    \/ \E t \in ProducerIds : ProducerPut(t)
    \/ \E p \in Paths : FsChange(p)

Spec == Init /\ [][Next]_vars

\* The program with handlers that call add_rule and remove_rule.
HandlerOps == {"add_rule", "remove_rule"}

NextWithHandlerCalls ==
    \/ Next
    \/ \E op \in HandlerOps : \E p \in Paths : HandlerCalls(op, p)
    \/ HandlerAddRuleEnter
    \/ HandlerAddRuleInsert
    \/ HandlerRemoveRuleEnter
    \/ HandlerRemoveRuleStop
    \/ HandlerRemoveRuleDiscard

SpecHandlerCalls == Init /\ [][NextWithHandlerCalls]_vars


----------------------------------------------------------------------------
(* Vocabulary of the properties. *)

Range(seq) == {seq[i] : i \in 1..Len(seq)}

InDispatchLoop == obs.pc \in TryPcs

\* The steps the program's own threads can take without any further API
\* call, change on disk or interrupt.
ProgramNext ==
    \/ AddRuleInsert
    \/ RemoveRuleStop
    \/ RemoveRuleDiscard
    \/ StopFor
    \/ ObsRunBegin
    \/ ObsFor
    \/ ObsTry
    \/ ObsGet
    \/ ObsLookup
    \/ \E raised \in BOOLEAN : ObsDispatch(raised)
    \/ ObsExcept
    \/ \E t \in ProducerIds : ProducerLoop(t)
    \/ \E t \in ProducerIds : ProducerPoll(t)
    \/ \E t \in ProducerIds : ProducerPut(t)

\* The program is quiet: none of its threads has a step to take.
Quiet == ~ENABLED ProgramNext

\* The program has settled: the caller and the dispatcher have no step to
\* take, no producer has an event left to put, and every producer that is
\* polling has taken its baseline and would find nothing new in a poll now.
Settled ==
    /\ call.pc = "idle"
    /\ obs.pc \in {"created", "returned", "failed"}
          \/ (obs.pc = "get" /\ event_queue = <<>>)
    /\ \A t \in ProducerIds :
          /\ prod[t].pc # "emit"
          /\ prod[t].pc \in {"while", "wait"}
                => /\ prod[t].polled
                   /\ PollEvents(GetDirectorySnapshotDiff(t).diff) = <<>>

\* How many times the entry e was handed to a handler.
DeliveredCount(e) ==
    LET ds == {d \in BagToSet(delivered) : d.entry = e}
    IN BagCardinality([d \in ds |-> delivered[d]])

\* The entry the dispatcher has taken off the queue and not yet dispatched.
InFlight == IF obs.pc \in {"lookup", "dispatch"} THEN Range(obs.entry) ELSE {}

\* The entries producer t has put and that are still on their way.
QueuedBy(t) == {e \in Range(event_queue) \cup InFlight : e.prod = t}

\* Whether the event types of seq follow `order`, which gives each event
\* type its position in an emission order.
Ordered(order, seq) ==
    \A i \in 1..(Len(seq) - 1) : order[seq[i].type] <= order[seq[i + 1].type]

\* The events of producer t's latest poll: those already on the queue, in
\* queue order, followed by those it still has to put.
CurrentPoll(t) ==
    LET put == SelectSeq(event_queue,
                         LAMBDA e : e.prod = t /\ e.poll = prod[t].poll)
    IN [i \in 1..Len(put) |-> put[i].event] \o prod[t].pending

----------------------------------------------------------------------------
(* Properties. *)

\* C1: once run() is in its dispatch loop, every producer that was
\* registered when run() was invoked has been started.
C1_AllProducersStarted ==
    InDispatchLoop => \A t \in obs.at_run : prod[t].pc # "new"

\* C2: the dispatch loop never fails because the rule that owns a queued
\* entry is absent at dispatch time; the stale entry is dropped.
C2_StaleEntryDropped == ~(obs.pc = "failed" /\ obs.error = "KeyError")

\* C3: a failure raised by a handler's dispatch(event) never terminates the
\* dispatch loop.
C3_HandlerFailureContained == ~(obs.pc = "failed" /\ obs.error = "HandlerError")

\* C4: when add_rule inserts a new rule while run() is in its dispatch
\* loop, the new rule's producer is started by the time add_rule returns.
C4_AddWhileRunningStarts ==
    [][(AddRuleInsert /\ InDispatchLoop) => prod'[call.t].pc # "new"]_vars

\* C5: after stop() was called on an observer in its dispatch loop, run()
\* exits: whenever the program is quiet, run() is no longer executing.
C5_RunReturnsAfterStop ==
    (hist.stopped_running /\ Quiet) => obs.pc \in {"returned", "failed"}

\* The roots registered since run() was invoked whose producer was not told
\* to stop.
WatchedSinceRun ==
    {p \in DOMAIN rules : /\ rules[p].event_producer_thread \in obs.at_run
                          /\ ~prod[rules[p].event_producer_thread].stopped}

\* C6: with both roots watched and changed, whenever the program has
\* settled in its dispatch loop the producer of each root has seen the
\* root's current tree (no change is missed), nothing it emitted is still
\* undelivered, and no entry was handed to a handler twice.
C6_BothRootsExactlyOnce ==
    /\ \A d \in BagToSet(delivered) : DeliveredCount(d.entry) = 1
    /\ (/\ Settled /\ InDispatchLoop
        /\ WatchedSinceRun = Paths
        /\ \A p \in Paths : fs[p] # InitialTree[p])
       => \A p \in Paths :
            /\ prod[rules[p].event_producer_thread].snapshot = <<fs[p]>>
            /\ QueuedBy(rules[p].event_producer_thread) = {}

\* C7: the first poll of a producer stores the baseline snapshot and puts
\* nothing: the step that is a producer's first poll stores the tree as it
\* is on disk, leaves the queue alone and leaves the producer with no event to
\* put; and a producer that has not polled has put nothing.
C7_FirstPollEmitsNothing ==
    [][\A t \in ProducerIds :
          /\ (~prod[t].polled /\ prod'[t].polled) =>
                /\ prod'[t].snapshot = <<fs[prod[t].path]>>
                /\ prod'[t].pending = <<>>
                /\ prod'[t].pc = "while"
                /\ event_queue' = event_queue
          /\ ~prod'[t].polled =>
                /\ prod'[t].pending = <<>>
                /\ QueuedBy(t)' = {}
                /\ \A d \in BagToSet(delivered') : d.entry.prod # t]_vars

\* C7 witness: a producer took its baseline of the changed tree under "a"
\* (six entries) and is back at its loop with nothing emitted.
C7_Witness ==
    \E t \in ProducerIds :
        /\ prod[t].polled
        /\ prod[t].snapshot = <<TreeB>>
        /\ prod[t].pc = "while"
        /\ prod[t].poll = 0
        /\ event_queue = <<>>
        /\ delivered = EmptyBag

\* C8: a producer whose stop flag is set starts no new poll: it leaves the
\* timed wait only to terminate.
C8_NoPollAfterStop ==
    [][\A t \in ProducerIds :
          (prod[t].stopped /\ prod[t].pc = "wait")
              => prod'[t].pc \in {"wait", "done"}]_vars

\* The order the claim states, and the order of the eight loops.
OrderClaimed ==
    [FileDeletedEvent |-> 1, FileModifiedEvent |-> 2, FileCreatedEvent |-> 3,
     FileMovedEvent |-> 4, DirDeletedEvent |-> 5, DirModifiedEvent |-> 6,
     DirCreatedEvent |-> 7, DirMovedEvent |-> 8]

OrderAmended ==
    [FileDeletedEvent |-> 1, FileModifiedEvent |-> 2, FileCreatedEvent |-> 3,
     FileMovedEvent |-> 4, DirModifiedEvent |-> 5, DirDeletedEvent |-> 6,
     DirCreatedEvent |-> 7, DirMovedEvent |-> 8]

\* C9 as claimed: within one poll the events are put in the order files
\* deleted, modified, created, moved, then dirs deleted, modified, created,
\* moved.
C9_OrderAsClaimed ==
    \A t \in ProducerIds : Ordered(OrderClaimed, CurrentPoll(t))

\* C9 amended: within one poll the events are put in the order files
\* deleted, modified, created, moved, then dirs modified, deleted, created,
\* moved.
C9_EmissionOrder ==
    \A t \in ProducerIds : Ordered(OrderAmended, CurrentPoll(t))

\* C9 witness: all eight events of one poll are on the queue, one of each
\* type.
C9_Witness ==
    \E t \in ProducerIds :
        /\ prod[t].pc = "while"
        /\ Len(CurrentPoll(t)) = 8
        /\ {CurrentPoll(t)[i].type : i \in 1..8} = EventTypes

\* C10: add_rule on a registered path changes nothing (rules, producers and
\* producer set are kept); on a new path it constructs exactly one producer,
\* adds it to the producer set and inserts exactly one rule bound to it,
\* and no step of add_rule starts the producer.
C10_AddRuleIdempotent ==
    [][/\ \A p \in Paths, h \in Handlers :
            AddRuleEnter(p, h) =>
                IF p \in DOMAIN rules
                THEN UNCHANGED <<rules, event_producer_threads, prod>>
                ELSE \E t \in ProducerIds :
                        /\ prod[t].pc = "unborn"
                        /\ prod'[t].pc = "new" /\ prod'[t].path = p
                        /\ \A u \in ProducerIds \ {t} : prod'[u] = prod[u]
                        /\ event_producer_threads' = event_producer_threads \cup {t}
                        /\ t \notin event_producer_threads
                        /\ call'.t = t
       /\ AddRuleInsert =>
            /\ DOMAIN rules' = DOMAIN rules \cup {call.path}
            /\ call.path \notin DOMAIN rules
            /\ rules'[call.path] = [event_handler |-> call.event_handler,
                                    event_producer_thread |-> call.t]
            /\ \A q \in DOMAIN rules : rules'[q] = rules[q]
            /\ UNCHANGED <<event_producer_threads, prod>>]_vars

\* C10 witness: add_rule was called for a registered path with another
\* handler and returned, and a rule added before holds an unstarted producer.
C10_Witness ==
    /\ hist.kept
    /\ call.pc = "idle"
    /\ \E p \in DOMAIN rules : prod[rules[p].event_producer_thread].pc = "new"

\* The producers bound to a rule of the table, and the producer of the
\* add_rule in progress (constructed, its rule not yet inserted).
Registered == {rules[p].event_producer_thread : p \in DOMAIN rules}

BeingAdded ==
    (IF call.pc = "insert" THEN {call.t} ELSE {})
    \cup (IF obs.pc = "h_insert" THEN {obs.hcall.t} ELSE {})

\* A producer thread that was started and has not terminated.
Live(t) == prod[t].pc \in {"while", "wait", "emit"}

\* C11: remove_rule of an unregistered path changes nothing; and no rule is
\* absent from the table while its producer is live and not yet told to
\* stop: every live producer that was not told to stop is bound to a rule of
\* the table (or to the rule add_rule is inserting).
C11_StopBeforeDiscard ==
    [][/\ \A p \in Paths :
            (RemoveRuleEnter(p) /\ p \notin DOMAIN rules)
                => UNCHANGED <<rules, event_producer_threads, event_queue, prod>>
       /\ \A t \in ProducerIds :
            (Live(t) /\ ~prod[t].stopped)' => t \in (Registered \cup BeingAdded)']_vars

\* C14: at most one live producer (started and not yet terminated) exists
\* for any watched path.
C14_OneLiveProducerPerPath ==
    \A p \in DOMAIN rules :
        Cardinality({t \in ProducerIds : Live(t) /\ prod[t].path = p}) <= 1

\* C15: stop() never truncates a poll in progress.  A producer that has
\* taken its diff and still has events to put keeps every one of them,
\* whatever the other threads do (stop() included), until it puts them
\* itself, one at a time, in order, at the tail of the queue; and it tests
\* its stop flag again only when none is left.
C15_StopNeverTruncatesPoll ==
    [][\A t \in ProducerIds :
          /\ prod[t].pc = "emit" =>
                \/ /\ prod'[t].pending = prod[t].pending
                   /\ prod'[t].pc = "emit"
                \/ /\ event_queue' = Append(event_queue,
                                            Entry(t, Head(prod[t].pending)))
                   /\ prod'[t].pending = Tail(prod[t].pending)
                   /\ prod'[t].pc = IF prod'[t].pending = <<>> THEN "while" ELSE "emit"
          /\ prod'[t].pc \in {"while", "wait", "done"} => prod'[t].pending = <<>>]_vars

\* C15 witness: a producer was told to stop while it was putting the eight
\* events of a poll; some are on the queue, the others still to put.
C15_Witness ==
    \E t \in ProducerIds :
        /\ prod[t].stopped
        /\ prod[t].pc = "emit"
        /\ Len(prod[t].pending) \in 1..7
        /\ Len(CurrentPoll(t)) = 8

\* The events the claim expects of a diff: one per element of each of the
\* eight categories.
OnePathEvents(type, paths) == {Event(type, paths[i]) : i \in 1..Len(paths)}

TwoPathEvents(type, pairs) == {MovedEvent(type, pairs[i]) : i \in 1..Len(pairs)}

DiffEvents(diff) ==
    OnePathEvents("FileDeletedEvent", diff.files_deleted)
    \cup OnePathEvents("FileModifiedEvent", diff.files_modified)
    \cup OnePathEvents("FileCreatedEvent", diff.files_created)
    \cup TwoPathEvents("FileMovedEvent", diff.files_moved)
    \cup OnePathEvents("DirModifiedEvent", diff.dirs_modified)
    \cup OnePathEvents("DirDeletedEvent", diff.dirs_deleted)
    \cup OnePathEvents("DirCreatedEvent", diff.dirs_created)
    \cup TwoPathEvents("DirMovedEvent", diff.dirs_moved)

DiffSize(diff) ==
    Len(diff.files_deleted) + Len(diff.files_modified) + Len(diff.files_created)
    + Len(diff.files_moved) + Len(diff.dirs_modified) + Len(diff.dirs_deleted)
    + Len(diff.dirs_created) + Len(diff.dirs_moved)

\* C17: a non-baseline poll leaves the producer with exactly one event to
\* put per element of each of the eight categories of the diff between the
\* tree on disk and the stored snapshot, and nothing else (nothing at all
\* when the diff is empty); and whatever is added to the queue is one such
\* event, tagged with the watched path of the producer that puts it.
C17_OneEntryPerDiffElement ==
    [][/\ \A t \in ProducerIds :
            (/\ prod[t].pc = "wait" /\ prod'[t].pc \in {"while", "emit"}
             /\ prod[t].snapshot # None) =>
                LET diff == SnapshotDiff(fs[prod[t].path], prod[t].snapshot[1])
                    put == prod'[t].pending
                IN /\ Len(put) = DiffSize(diff)
                   /\ \A e \in DiffEvents(diff) :
                         Cardinality({i \in 1..Len(put) : put[i] = e}) = 1
                   /\ prod'[t].pc = IF DiffSize(diff) = 0 THEN "while" ELSE "emit"
                   /\ event_queue' = event_queue
       /\ Len(event_queue') > Len(event_queue) =>
            \E t \in ProducerIds :
                /\ prod[t].pc = "emit"
                /\ Len(event_queue') = Len(event_queue) + 1
                /\ event_queue'[Len(event_queue')].rule_path = prod[t].path
                /\ event_queue'[Len(event_queue')].event = Head(prod[t].pending)
                /\ prod'[t].pending = Tail(prod[t].pending)
                /\ \A i \in 1..Len(event_queue) : event_queue'[i] = event_queue[i]]_vars

\* C17 witness: the producer of "b" has put the two events of a poll that
\* found two files created, both tagged "b", while the producer of "a",
\* whose tree did not change, has polled and put nothing.
C17_Witness ==
    \E t, u \in ProducerIds :
        /\ prod[t].path = "b" /\ prod[t].pc = "while"
        /\ prod[t].snapshot = <<TreeTwo>>
        /\ event_queue = <<Entry(t, Event("FileCreatedEvent", "f2")),
                           Entry(t, Event("FileCreatedEvent", "f3"))>>
        /\ prod[u].path = "a" /\ prod[u].polled /\ Live(u)
        /\ prod[u].snapshot = <<TreeA>>

\* C18: every poll stores the snapshot it has just taken as the producer's
\* previous snapshot, in the step that computes the diff; the diff it emits
\* is the one between that snapshot and the one stored by the poll before
\* (the first poll, which has no previous snapshot, emits nothing); and
\* between two polls nothing changes the stored snapshot, so that a
\* snapshot is the previous side of one diff only.
C18_DiffOfConsecutiveSnapshots ==
    [][\A t \in ProducerIds :
          IF prod[t].pc = "wait" /\ prod'[t].pc \in {"while", "emit"}
          THEN /\ prod'[t].snapshot = <<fs[prod[t].path]>>
               /\ prod'[t].pending =
                     IF prod[t].snapshot = None THEN <<>>
                     ELSE EventsOf(SnapshotDiff(fs[prod[t].path],
                                                prod[t].snapshot[1]))
          ELSE prod[t].pc \in {"while", "wait", "emit", "done"}
                  => prod'[t].snapshot = prod[t].snapshot]_vars

\* C18 witness: the producer of "a" has put the eight events of its first
\* diff (TreeA to TreeB) and has taken its second diff, against the
\* snapshot of TreeB stored by the poll before: it holds the snapshot of
\* TreeA and the events of the change from TreeB to TreeA.
C18_Witness ==
    \E t \in ProducerIds :
        /\ prod[t].path = "a"
        /\ prod[t].snapshot = <<TreeA>>
        /\ prod[t].poll = 2
        /\ prod[t].pc = "emit"
        /\ prod[t].pending = EventsOf(SnapshotDiff(TreeA, TreeB))
        /\ Len(event_queue) = 8
        /\ \A i \in 1..8 : event_queue[i].prod = t /\ event_queue[i].poll = 1

\* C19: every event passed to a handler was emitted by the producer of the
\* rule registration the handler belongs to: whenever the dispatcher
\* resolves the handler of an entry, the rule it finds is bound to the
\* producer that put the entry.
C19_EventOfSameRegistration ==
    [][(obs.pc = "lookup" /\ obs'.pc = "dispatch") =>
          rules[obs.entry[1].rule_path].event_producer_thread
              = obs.entry[1].prod]_vars

\* The producer set is being traversed: the for statement of run() holds an
\* iterator over self.event_producer_threads from its first step until
\* run() ends (the dispatch loop and the handlers run inside it), and the
\* for statement of stop() holds one until stop() ends.
Traversing ==
    obs.pc \in {"for", "started", "except"} \cup TryPcs \/ call.pc = "stop_for"

\* C20: no traversal of the producer set by run() overlaps with a
\* structural mutation of the set by add_rule or remove_rule: while run()
\* is traversing the set, no step adds a producer to it or removes one.
C20_TraversalSerialized ==
    [][Traversing => event_producer_threads' = event_producer_threads]_vars

----------------------------------------------------------------------------
(* Scheduling.  A producer thread that can take a step takes it: the timed *)
(* wait returns after `interval` at the latest, the queue is unbounded so   *)
(* put() does not block, and the snapshot operation is taken to return.    *)

ProducerFairness ==
    \A t \in ProducerIds :
        /\ WF_vars(ProducerLoop(t))
        /\ WF_vars(ProducerPoll(t))
        /\ WF_vars(ProducerPut(t))

SpecFair == Spec /\ ProducerFairness

\* C16: after stop() on a started producer, its thread eventually
\* terminates, whether the flag was set during the timed wait or in the
\* middle of a poll.
C16_StoppedProducerTerminates ==
    \A t \in ProducerIds :
        (Live(t) /\ prod[t].stopped) ~> (prod[t].pc = "done")

\* C16 witness: a producer that was told to stop has terminated, the events
\* of its last poll on the queue.
C16_Witness ==
    \E t \in ProducerIds :
        /\ prod[t].stopped
        /\ prod[t].pc = "done"
        /\ Len(CurrentPoll(t)) = 8

----------------------------------------------------------------------------
(* Snapshot acquisition failure: DirectorySnapshot(self.path) raises (the  *)
(* watched root cannot be read).                                           *)

\* Mutant of the failure path: the failing producer stops every producer
\* of the observer before its thread ends.
ProducerPollFails_StopsAll(t) ==
    /\ prod[t].pc = "wait"
    /\ hist.events < MaxEvents
    /\ prod' = ProducerStop([prod EXCEPT ![t].pc = "crashed"],
                            event_producer_threads)
    /\ hist' = [hist EXCEPT !.events = @ + 1]
    /\ UNCHANGED <<rules, event_producer_threads, event_queue, obs, call, fs,
                   delivered>>

\* stopped.wait(interval) returns and DirectorySnapshot raises inside
\* _get_directory_snapshot_diff: the exception leaves the method and, run()
\* having no handler for it, ends the producer's thread.
ProducerPollFails(t) ==
    /\ prod[t].pc = "wait"
    /\ hist.events < MaxEvents
    /\ prod' = [prod EXCEPT ![t].pc = "crashed"]
    /\ hist' = [hist EXCEPT !.events = @ + 1]
    /\ UNCHANGED <<rules, event_producer_threads, event_queue, obs, call, fs,
                   delivered>>

NextOrFailure ==
    \/ Next
    \/ \E t \in ProducerIds : ProducerPollFails(t)

SpecAcquisitionFailure == Init /\ [][NextOrFailure]_vars

Crashed == {t \in ProducerIds : prod[t].pc = "crashed"}

\* C13: a snapshot acquisition failure stays local to its producer.  The
\* step in which a producer fails changes nothing of the dispatcher, of the
\* other producers, of the rule table, the producer set or the queue; and
\* with a failed producer around, the dispatcher still takes the entries of
\* the queue and add_rule and remove_rule can still be called and run to
\* their end.
C13_AcquisitionFailureLocal ==
    /\ [][\A t \in ProducerIds :
             (prod[t].pc # "crashed" /\ prod'[t].pc = "crashed") =>
                /\ obs' = obs
                /\ \A u \in ProducerIds \ {t} : prod'[u] = prod[u]
                /\ prod'[t] = [prod[t] EXCEPT !.pc = "crashed"]
                /\ UNCHANGED <<rules, event_producer_threads, event_queue,
                               call, delivered>>]_vars
    /\ [](Crashed # {} =>
            /\ (obs.pc = "get" /\ event_queue # <<>>) => ENABLED ObsGet
            /\ obs.pc = "lookup" => ENABLED ObsLookup
            /\ obs.pc = "dispatch" => ENABLED ObsDispatch(FALSE)
            /\ obs.pc = "started" => ENABLED ObsTry
            /\ obs.pc = "except" => ENABLED ObsExcept
            /\ CanCall => /\ \A p \in Paths : ENABLED RemoveRuleEnter(p)
                          /\ \A p \in DOMAIN rules : ENABLED AddRuleEnter(p, "h1")
                          /\ (\E t \in ProducerIds : prod[t].pc = "unborn")
                                => \A p \in Paths : ENABLED AddRuleEnter(p, "h1")
            /\ call.pc = "insert" => ENABLED AddRuleInsert
            /\ call.pc = "stop" => ENABLED RemoveRuleStop
            /\ call.pc = "discard" => ENABLED RemoveRuleDiscard
            /\ call.pc = "stop_for" => ENABLED StopFor)

\* C13 witness: the producer of a rule failed while the dispatcher was
\* waiting on the queue, and remove_rule, called for that rule afterwards,
\* has popped the rule and is about to set the flag of the dead producer.
C13_Witness ==
    /\ obs.pc = "get"
    /\ call.pc = "stop"
    /\ call.t \in Crashed
    /\ ~prod[call.t].stopped

\* The steps of a call a handler makes, and the steps by which the caller's
\* thread goes through its critical section.
HandlerCallStep ==
    \/ HandlerAddRuleEnter
    \/ HandlerAddRuleInsert
    \/ HandlerRemoveRuleEnter
    \/ HandlerRemoveRuleStop
    \/ HandlerRemoveRuleDiscard

CallerCriticalStep ==
    \/ AddRuleInsert
    \/ RemoveRuleStop
    \/ RemoveRuleDiscard

HandlerInCall == obs.pc = "h_acquire" \/ HandlerInCriticalSection

\* C12: a handler that calls add_rule or remove_rule from inside
\* dispatch(event) is never deadlocked: its call can take its next step, or
\* it waits for the lock while the caller's thread holds it and can go on to
\* release it (the dispatcher itself holds no lock across the handler); a
\* thread inside add_rule or remove_rule can always go on; and the critical
\* sections of add_rule and remove_rule never overlap.
C12_HandlerCallsWithoutDeadlock ==
    /\ HandlerInCall =>
          \/ ENABLED HandlerCallStep
          \/ CallerHoldsLock /\ ENABLED CallerCriticalStep
    /\ CallerHoldsLock => ENABLED CallerCriticalStep
    /\ ~(CallerHoldsLock /\ HandlerInCriticalSection)

\* C12 witness: a handler has called remove_rule from inside dispatch while
\* the caller's thread is inside add_rule: the handler's call waits for the
\* lock.
C12_Witness ==
    /\ obs.pc = "h_acquire"
    /\ obs.hcall.op = "remove_rule"
    /\ call.pc = "insert"

====
